---- MODULE Spec2Model ----
(***************************************************************************)
(* Model of the asyncio download engine of class Manga (src/main.py).      *)
(*                                                                         *)
(* download_chapters walks the chapter range in chunks ("windows") of      *)
(* concurrent_chapters indices.  Each chunk is a list of asyncio tasks     *)
(* running run_driver_and_download, joined by asyncio.gather.  Each        *)
(* chapter task discovers its page URLs (run_driver, synchronous) and      *)
(* then runs download_images: one asyncio task per URL, all gated by a     *)
(* per-call asyncio.Semaphore(window_size), joined by asyncio.gather.      *)
(*                                                                         *)
(* asyncio.gather is called without return_exceptions: the first child     *)
(* that raises makes the awaiting coroutine raise at once, while the       *)
(* other children are neither awaited nor cancelled and keep running on    *)
(* the event loop.                                                         *)
(***************************************************************************)
EXTENDS Integers, Sequences, FiniteSets

\* ---------------------------------------------------------------- bounds
MaxChapter == 3      \* chapter indices are 1..MaxChapter
MaxBegin == 2        \* begin is drawn from 1..MaxBegin
MaxPages == 2        \* a chapter page yields 0..MaxPages matching img sources
MaxDownloads == 2    \* concurrent_downloads is drawn from 0..MaxDownloads

Chapters == 1..MaxChapter

\* The latest chapter numbers the feed is taken to announce.
FeedChapters == 0..(MaxChapter - 1)

\* The values of concurrent_chapters a run is started with.
ChapterCaps == {1, 2}

\* How a single GET of download_image can end other than by storing the image:
\* raise_for_status() on a status >= 400 (4xx, 5xx), a connection-level error
\* raised by session.get, or Image.open failing to decode the payload.  The code
\* treats them alike (the exception leaves download_image), so a page task
\* records only that it failed; the kind is an input of FetchFail.
FetchErrors == {"http4xx", "http5xx", "network", "decode"}

\* How find_last_chapter can fail: requests.get / raise_for_status, ET.fromstring,
\* the three assertions, int() on a non-numeric token.
FeedErrors == {"unreachable", "malformed", "no_item", "no_guid", "no_text", "not_numeric"}

VARIABLES
    begin,                \* argument begin
    end_arg,              \* argument end as passed by the caller (-1 = discover)
    concurrent_chapters,  \* argument concurrent_chapters
    concurrent_downloads, \* argument concurrent_downloads (window_size of download_images)
    pc,                   \* position of the download_chapters coroutine
    error,                \* what download_chapters raised ("none" while it has not)
    end,                  \* local variable end
    chunk_start,          \* loop variable chunk_start
    windows,              \* history: the <<chunk_start, chunk_end>> of every chunk dispatched
    feed_reads,           \* history: number of calls of find_last_chapter
    last_chapter,         \* history: what find_last_chapter returned (-1 while it has not)
    chap,                 \* per chapter: state of its run_driver_and_download task
    page,                 \* per chapter: sequence of the states of its page tasks
    attempts,             \* per chapter: sequence of the number of GETs issued per page
    sem,                  \* per chapter: the value of the Semaphore of its download_images call
    stores,               \* history: number of image.save calls that completed
    fn,                   \* unit view: the method under call ("none" in an engine run)
    arg,                  \* unit view: its argument
    ret,                  \* unit view: what the last call returned or raised
    dirs,                 \* storage view: the chapter directories under self.path
    files,                \* storage view: the page files, as [chapter, page, content]
    images                \* storage view: the [idx, url] pairs run_driver returned

engine == <<begin, end_arg, concurrent_chapters, concurrent_downloads, pc, error, end,
            chunk_start, windows, feed_reads, last_chapter, chap, page, attempts, sem,
            stores>>

\* The variables of the unit and storage views; an engine run leaves them alone.
lib == <<fn, arg, ret, dirs, files, images>>

vars == <<engine, lib>>

args == <<begin, end_arg, concurrent_chapters, concurrent_downloads>>

\* ---------------------------------------------------------------- helpers
Min(a, b) == IF a <= b THEN a ELSE b

RECURSIVE SumTo(_, _)
SumTo(f, n) == IF n = 0 THEN 0 ELSE f[n] + SumTo(f, n - 1)

\* Pages of chapter c whose task is inside download_image (semaphore held).
InFlight(c) == {p \in DOMAIN page[c] : page[c][p] = "inflight"}

InFlightCount == [c \in Chapters |-> Cardinality(InFlight(c))]

TotalInFlight == SumTo(InFlightCount, MaxChapter)

PageTerminal(s) == s \in {"ok", "failed"}

ChapterTerminal(s) == s \in {"done", "driver_failed", "images_raised"}

\* Results of a call in the unit and storage views: not yet made, a returned
\* value, or the name of the exception raised.
Pending == [tag |-> "pending", val |-> "none"]

Returned(v) == [tag |-> "ok", val |-> v]

Raised(exc) == [tag |-> "error", val |-> exc]

\* The unit and storage views at rest.
LibIdle ==
    /\ fn = "none"
    /\ arg = << >>
    /\ ret = Pending
    /\ dirs = {}
    /\ files = {}
    /\ images = {}

\* ---------------------------------------------------------------- initial state
\* A call download_chapters(begin, end, concurrent_chapters, concurrent_downloads)
\* that has not run its first statement yet; no task exists.
Init ==
    /\ begin \in 1..MaxBegin
    /\ end_arg \in {-1} \cup (0..MaxChapter)
    /\ concurrent_chapters \in ChapterCaps
    /\ concurrent_downloads \in 0..MaxDownloads
    /\ pc = "start"
    /\ error = "none"
    /\ end = end_arg
    /\ chunk_start = begin
    /\ windows = << >>
    /\ feed_reads = 0
    /\ last_chapter = -1
    /\ chap = [c \in Chapters |-> "none"]
    /\ page = [c \in Chapters |-> << >>]
    /\ attempts = [c \in Chapters |-> << >>]
    /\ sem = [c \in Chapters |-> 0]
    /\ stores = 0
    /\ LibIdle

\* ---------------------------------------------------------------- download_chapters
\* `if end == -1` is false: end keeps the caller's value and the feed is not read.
EnterExplicit ==
    /\ pc = "start"
    /\ end_arg # -1
    /\ pc' = "loop"
    /\ UNCHANGED <<args, lib, error, end, chunk_start, windows, feed_reads, last_chapter, chap, page,
                   attempts, sem, stores>>

\* Mutation of FindLastChapterOk: the feed is read but its result is not assigned.
FindLastChapterResultDropped(n) ==
    /\ pc = "start"
    /\ end_arg = -1
    /\ feed_reads' = feed_reads + 1
    /\ last_chapter' = n
    /\ pc' = "loop"
    /\ UNCHANGED <<args, lib, error, end, chunk_start, windows, chap, page, attempts, sem, stores>>

\* `end = self.find_last_chapter()` returning the number n parsed from the feed.
FindLastChapterOk(n) ==
    /\ pc = "start"
    /\ end_arg = -1
    /\ feed_reads' = feed_reads + 1
    /\ last_chapter' = n
    /\ end' = n
    /\ pc' = "loop"
    /\ UNCHANGED <<args, lib, error, chunk_start, windows, chap, page, attempts, sem, stores>>

\* Mutation of FindLastChapterFail: the error is swallowed and the loop is entered.
FindLastChapterFailSwallowed(e) ==
    /\ pc = "start"
    /\ end_arg = -1
    /\ feed_reads' = feed_reads + 1
    /\ pc' = "loop"
    /\ error' = e
    /\ UNCHANGED <<args, lib, end, chunk_start, windows, last_chapter, chap, page, attempts, sem, stores>>

\* find_last_chapter raising e: nothing catches it, download_chapters raises.
FindLastChapterFail(e) ==
    /\ pc = "start"
    /\ end_arg = -1
    /\ feed_reads' = feed_reads + 1
    /\ pc' = "raised"
    /\ error' = e
    /\ UNCHANGED <<args, lib, end, chunk_start, windows, last_chapter, chap, page, attempts, sem, stores>>

\* Mutation of ChunkEnd: the chunk runs one index too far.
ChunkEndOffByOne(cs) == Min(cs + concurrent_chapters, end)

\* chunk_end = min(chunk_start + concurrent_chapters - 1, end)
ChunkEnd(cs) == Min(cs + concurrent_chapters - 1, end)

\* The chapter indices of the chunk being awaited.
CurrentChunk == windows[Len(windows)][1]..windows[Len(windows)][2]

\* One iteration of the for loop up to its await: a task is created for every idx
\* of range(chunk_start, chunk_end + 1).
SpawnWindow ==
    /\ pc = "loop"
    /\ chunk_start <= end
    /\ windows' = Append(windows, <<chunk_start, ChunkEnd(chunk_start)>>)
    /\ chap' = [c \in Chapters |->
                  IF c \in chunk_start..ChunkEnd(chunk_start) THEN "created" ELSE chap[c]]
    /\ pc' = "gather"
    /\ UNCHANGED <<args, lib, error, end, chunk_start, feed_reads, last_chapter, page, attempts, sem, stores>>

\* range(begin, end + 1, concurrent_chapters) is exhausted: log "done" and return.
Return ==
    /\ pc = "loop"
    /\ chunk_start > end
    /\ pc' = "done"
    /\ UNCHANGED <<args, lib, error, end, chunk_start, windows, feed_reads, last_chapter, chap, page,
                   attempts, sem, stores>>

\* Mutation of GatherChaptersDone: the join returns on the first finished task.
GatherChaptersFirstDone ==
    \E c \in windows[Len(windows)][1]..windows[Len(windows)][2] : chap[c] = "done"

\* asyncio.gather(*tasks) delivers its result: every task of the chunk returned.
GatherChaptersDone == \A c \in CurrentChunk : chap[c] = "done"

\* asyncio.gather(*tasks) delivers an exception: some task of the chunk raised.
GatherChaptersRaised ==
    \E c \in CurrentChunk : chap[c] \in {"driver_failed", "images_raised"}

WindowJoin ==
    /\ pc = "gather"
    /\ GatherChaptersDone
    /\ chunk_start' = chunk_start + concurrent_chapters
    /\ pc' = "loop"
    /\ UNCHANGED <<args, lib, error, end, windows, feed_reads, last_chapter, chap, page, attempts, sem,
                   stores>>

\* The exception leaves download_chapters; the sibling tasks stay on the loop.
WindowRaise ==
    /\ pc = "gather"
    /\ GatherChaptersRaised
    /\ pc' = "raised"
    /\ error' = "chapter"
    /\ UNCHANGED <<args, lib, end, chunk_start, windows, feed_reads, last_chapter, chap, page, attempts,
                   sem, stores>>

\* ---------------------------------------------------------------- run_driver_and_download
\* Mutation of RunDriverOk: an empty source list is treated as a failure.
RunDriverOkEmptyRaises(c, n) ==
    /\ chap[c] = "created"
    /\ page' = [page EXCEPT ![c] = [p \in 1..n |-> "waiting"]]
    /\ attempts' = [attempts EXCEPT ![c] = [p \in 1..n |-> 0]]
    /\ sem' = [sem EXCEPT ![c] = concurrent_downloads]
    /\ chap' = [chap EXCEPT ![c] = IF n = 0 THEN "images_raised" ELSE "downloading"]
    /\ UNCHANGED <<args, lib, pc, error, end, chunk_start, windows, feed_reads, last_chapter, stores>>

\* First step of a chapter task: run_driver returns n sources (it never suspends),
\* then download_images builds Semaphore(window_size) and one task per url and
\* awaits their gather.  gather() of no task is already done, so with n = 0 the
\* chapter task returns in this same step.
RunDriverOk(c, n) ==
    /\ chap[c] = "created"
    /\ page' = [page EXCEPT ![c] = [p \in 1..n |-> "waiting"]]
    /\ attempts' = [attempts EXCEPT ![c] = [p \in 1..n |-> 0]]
    /\ sem' = [sem EXCEPT ![c] = concurrent_downloads]
    /\ chap' = [chap EXCEPT ![c] = IF n = 0 THEN "done" ELSE "downloading"]
    /\ UNCHANGED <<args, lib, pc, error, end, chunk_start, windows, feed_reads, last_chapter, stores>>

\* Mutation of RunDriverFail: the page tasks of a url are created although
\* run_driver raised.
RunDriverFailStillDownloads(c) ==
    /\ chap[c] = "created"
    /\ chap' = [chap EXCEPT ![c] = "driver_failed"]
    /\ page' = [page EXCEPT ![c] = <<"waiting">>]
    /\ attempts' = [attempts EXCEPT ![c] = <<0>>]
    /\ sem' = [sem EXCEPT ![c] = concurrent_downloads]
    /\ UNCHANGED <<args, lib, pc, error, end, chunk_start, windows, feed_reads, last_chapter, stores>>

\* run_driver raises (makedirs, WebDriver(), driver.get, find_elements, ...):
\* the chapter task ends with that exception before download_images is entered.
RunDriverFail(c) ==
    /\ chap[c] = "created"
    /\ chap' = [chap EXCEPT ![c] = "driver_failed"]
    /\ UNCHANGED <<args, lib, pc, error, end, chunk_start, windows, feed_reads, last_chapter, page,
                   attempts, sem, stores>>

\* ---------------------------------------------------------------- download_images
\* Mutation of CanAcquire: the gate admits every task.
CanAcquireAlways(c) == TRUE

\* Mutation of CanAcquire: one limiter shared by all chapters.
CanAcquireShared(c) == TotalInFlight < concurrent_downloads

\* Semaphore.acquire() proceeds only while the value is positive.
CanAcquire(c) == sem[c] > 0

\* `async with semaphore:` entered, download_image issues its GET. The page tasks
\* are created in list order and asyncio.Semaphore wakes its waiters first come
\* first served, so the permits go to the pages in list order.
StartFetch(c, p) ==
    /\ p \in DOMAIN page[c]
    /\ page[c][p] = "waiting"
    /\ \A q \in 1..(p - 1) : page[c][q] # "waiting"
    /\ CanAcquire(c)
    /\ sem' = [sem EXCEPT ![c] = @ - 1]
    /\ page' = [page EXCEPT ![c][p] = "inflight"]
    /\ attempts' = [attempts EXCEPT ![c][p] = @ + 1]
    /\ UNCHANGED <<args, lib, pc, error, end, chunk_start, windows, feed_reads, last_chapter, chap, stores>>

\* Mutation of FetchOk: the permit is not given back.
FetchOkNoRelease(c, p) ==
    /\ p \in DOMAIN page[c]
    /\ page[c][p] = "inflight"
    /\ page' = [page EXCEPT ![c][p] = "ok"]
    /\ stores' = stores + 1
    /\ UNCHANGED <<args, lib, pc, error, end, chunk_start, windows, feed_reads, last_chapter, chap,
                   attempts, sem>>

\* The response is 2xx and decodes: image.save, then the semaphore is released.
FetchOk(c, p) ==
    /\ p \in DOMAIN page[c]
    /\ page[c][p] = "inflight"
    /\ page' = [page EXCEPT ![c][p] = "ok"]
    /\ sem' = [sem EXCEPT ![c] = @ + 1]
    /\ stores' = stores + 1
    /\ UNCHANGED <<args, lib, pc, error, end, chunk_start, windows, feed_reads, last_chapter, chap, attempts>>

\* The GET fails with e: download_image raises (the ClientResponseError is logged
\* and re-raised, the others are never caught); leaving `async with` releases the
\* semaphore and the page task ends with the exception.
FetchFail(c, p, e) ==
    /\ p \in DOMAIN page[c]
    /\ page[c][p] = "inflight"
    /\ e \in FetchErrors
    /\ page' = [page EXCEPT ![c][p] = "failed"]
    /\ sem' = [sem EXCEPT ![c] = @ + 1]
    /\ UNCHANGED <<args, lib, pc, error, end, chunk_start, windows, feed_reads, last_chapter, chap, attempts,
                   stores>>

\* Mutation of GatherPagesDone: the join returns on the first stored page.
GatherPagesFirstDone(c) == \E p \in DOMAIN page[c] : page[c][p] = "ok"

\* asyncio.gather(*tasks) of download_images delivers its result.
GatherPagesDone(c) == \A p \in DOMAIN page[c] : page[c][p] = "ok"

\* asyncio.gather(*tasks) of download_images delivers an exception.
GatherPagesRaised(c) == \E p \in DOMAIN page[c] : page[c][p] = "failed"

ChapterJoin(c) ==
    /\ chap[c] = "downloading"
    /\ GatherPagesDone(c)
    /\ chap' = [chap EXCEPT ![c] = "done"]
    /\ UNCHANGED <<args, lib, pc, error, end, chunk_start, windows, feed_reads, last_chapter, page,
                   attempts, sem, stores>>

\* The exception leaves download_images and run_driver_and_download; the page tasks
\* that have not finished stay on the loop.
ChapterRaise(c) ==
    /\ chap[c] = "downloading"
    /\ GatherPagesRaised(c)
    /\ chap' = [chap EXCEPT ![c] = "images_raised"]
    /\ UNCHANGED <<args, lib, pc, error, end, chunk_start, windows, feed_reads, last_chapter, page,
                   attempts, sem, stores>>

\* ---------------------------------------------------------------- specification
Next ==
    \/ EnterExplicit
    \/ \E n \in FeedChapters : FindLastChapterOk(n)
    \/ \E e \in FeedErrors : FindLastChapterFail(e)
    \/ SpawnWindow
    \/ Return
    \/ WindowJoin
    \/ WindowRaise
    \/ \E c \in Chapters, n \in 0..MaxPages : RunDriverOk(c, n)
    \/ \E c \in Chapters : RunDriverFail(c)
    \/ \E c \in Chapters, p \in 1..MaxPages : StartFetch(c, p)
    \/ \E c \in Chapters, p \in 1..MaxPages : FetchOk(c, p)
    \/ \E c \in Chapters, p \in 1..MaxPages, e \in FetchErrors : FetchFail(c, p, e)
    \/ \E c \in Chapters : ChapterJoin(c)
    \/ \E c \in Chapters : ChapterRaise(c)

Spec == Init /\ [][Next]_vars

\* The event loop keeps running whatever is ready, and every discovery call and
\* every GET that was started comes back.
FairSpec == Spec /\ WF_vars(Next)

\* ---------------------------------------------------------------- strings
\* A str is a sequence of one-character strings.
Strings(alphabet, n) == UNION {[1..k -> alphabet] : k \in 0..n}

DigitChars == <<"0", "1", "2", "3", "4", "5", "6", "7", "8", "9">>

Digits == {DigitChars[i] : i \in DOMAIN DigitChars}

DigitVal(ch) == (CHOOSE i \in DOMAIN DigitChars : DigitChars[i] = ch) - 1

Last(seq) == seq[Len(seq)]

Front(seq) == SubSeq(seq, 1, Len(seq) - 1)

\* str.split(ch) for a one-character separator: the pieces between occurrences.
RECURSIVE Split(_, _)
Split(s, ch) ==
    IF \A k \in DOMAIN s : s[k] # ch
      THEN <<s>>
      ELSE LET k == CHOOSE i \in DOMAIN s : s[i] = ch /\ \A j \in 1..(i - 1) : s[j] # ch
           IN  <<SubSeq(s, 1, k - 1)>> \o Split(SubSeq(s, k + 1, Len(s)), ch)

\* Whether int(t) accepts t, for t over digits, letters and "_": decimal digits,
\* with single underscores allowed between digits.
IsIntLiteral(t) ==
    /\ Len(t) >= 1
    /\ \A i \in DOMAIN t : t[i] \in Digits \cup {"_"}
    /\ t[1] # "_" /\ t[Len(t)] # "_"
    /\ \A i \in 1..(Len(t) - 1) : ~(t[i] = "_" /\ t[i + 1] = "_")

\* int(t) of an accepted literal: digits accumulate left to right, "_" is skipped.
RECURSIVE IntValue(_)
IntValue(t) ==
    IF t = << >> THEN 0
    ELSE IF Last(t) = "_" THEN IntValue(Front(t))
    ELSE IntValue(Front(t)) * 10 + DigitVal(Last(t))

\* ---------------------------------------------------------------- find_last_chapter
\* Mutation of GuidToken: the token after the first separator is taken.
GuidTokenAfterFirst(guid) ==
    IF Len(Split(guid, "-")) >= 2 THEN Split(guid, "-")[2] ELSE guid

\* last_chapter.split("-")[-1]
GuidToken(guid) == Last(Split(guid, "-"))

\* find_last_chapter on a feed [status, guid]: a status other than "ok" is the
\* failure of the request, of the parse or of one of the assertions; otherwise
\* guid is the text of the first item's guid.
FindLastChapter(feed) ==
    IF feed.status # "ok" THEN Raised(feed.status)
    ELSE IF IsIntLiteral(GuidToken(feed.guid)) THEN Returned(IntValue(GuidToken(feed.guid)))
    ELSE Raised("not_numeric")

\* ---------------------------------------------------------------- get_images_src
\* Whether s[e-11..e] reads NNNN-NNN.png.
PageNameEndsAt(s, e) ==
    /\ e >= 12 /\ e <= Len(s)
    /\ \A i \in (e - 11)..(e - 8) : s[i] \in Digits
    /\ s[e - 7] = "-"
    /\ \A i \in (e - 6)..(e - 4) : s[i] \in Digits
    /\ s[e - 3] = "." /\ s[e - 2] = "p" /\ s[e - 1] = "n" /\ s[e] = "g"

\* re.match(r".*(?:[0-9]{4}-[0-9]{3})\.png$", s): "." matches no newline, "$" matches
\* at the end of s or before a newline that ends s.
Matches(s) ==
    \E e \in DOMAIN s :
        /\ PageNameEndsAt(s, e)
        /\ \A i \in 1..(e - 12) : s[i] # "\n"
        /\ e = Len(s) \/ (e = Len(s) - 1 /\ s[Len(s)] = "\n")

\* str(source) of what get_attribute("src") gave: None when the img has no src.
Str(source) == IF source.none THEN <<"N", "o", "n", "e">> ELSE source.text

\* Mutation of GetImagesSrc: a source already kept is not kept again.
RECURSIVE GetImagesSrcDedup(_)
GetImagesSrcDedup(sources) ==
    IF sources = << >> THEN << >>
    ELSE LET rest == GetImagesSrcDedup(Front(sources))
             x == Str(Last(sources))
         IN  IF Matches(x) /\ \A i \in DOMAIN rest : rest[i] # x
               THEN Append(rest, x) ELSE rest

\* [str(source) for source in sources if re.match(self.pattern, str(source))]
RECURSIVE GetImagesSrc(_)
GetImagesSrc(sources) ==
    IF sources = << >> THEN << >>
    ELSE LET rest == GetImagesSrc(Front(sources))
             x == Str(Last(sources))
         IN  IF Matches(x) THEN Append(rest, x) ELSE rest

\* ---------------------------------------------------------------- _extract_chapter_page
\* info = url.split("/")[-1].split(".")[0]
UrlInfo(url) == Split(Last(Split(url, "/")), ".")[1]

\* chapter, page = info.split("-"): unpacking anything but two pieces raises.
ExtractChapterPage(url) ==
    IF Len(Split(UrlInfo(url), "-")) = 2
      THEN Returned(<<Split(UrlInfo(url), "-")[1], Split(UrlInfo(url), "-")[2]>>)
      ELSE Raised("ValueError")

\* ---------------------------------------------------------------- unit view
MaxGuidLen == 5      \* guid texts have at most MaxGuidLen characters

GuidChars == {"a", "-", "_", "0", "1", "2", "4"}

Feeds ==
    {[status |-> e, guid |-> << >>] : e \in FeedErrors \ {"not_numeric"}}
        \cup {[status |-> "ok", guid |-> g] : g \in Strings(GuidChars, MaxGuidLen)}

\* The img sources and urls of the unit view: a host part, a file name made of
\* optional leading text, a chapter token, "-", a page token and an extension.
UrlPrefixes ==
    {<< >>, <<"h", "/">>, <<"h", "/", "a", "-", "b", "/">>, <<"h", ".", "c", "/">>}

NameLeads == {<< >>, <<"a", "-">>, <<"v", ".">>, <<"1">>}

ChapterTokens == {<<"0", "0", "0", "1">>, <<"0", "0", "0", "2">>, <<"0", "1", "2">>}

PageTokens == {<<"0", "0", "1">>, <<"0", "0", "2">>, <<"0", "1">>, <<"0", "0", "0", "1">>}

Extensions == {<<".", "p", "n", "g">>, <<".", "j", "p", "g">>, <<".", "p", "n", "g", "?", "x">>}

Urls ==
    {p \o l \o c \o <<"-">> \o g \o x :
        p \in UrlPrefixes, l \in NameLeads, c \in ChapterTokens, g \in PageTokens,
        x \in Extensions}

None == [none |-> TRUE, text |-> << >>]

Src(text) == [none |-> FALSE, text |-> text]

\* What one img element can give: no src, pages of chapter 1 and of chapter 2, a page
\* whose file name has leading text, and an image that is no page.
SourceChoices ==
    { None,
      Src(<<"h", "/", "0", "0", "0", "1", "-", "0", "0", "1", ".", "p", "n", "g">>),
      Src(<<"h", "/", "0", "0", "0", "2", "-", "0", "0", "1", ".", "p", "n", "g">>),
      Src(<<"h", "/", "a", "-", "0", "0", "0", "1", "-", "0", "0", "1", ".", "p", "n", "g">>),
      Src(<<"h", "/", "l", "o", "g", "o", ".", "p", "n", "g">>) }

MaxSources == 3      \* a rendered chapter has at most MaxSources img elements

SourceLists == UNION {[1..k -> SourceChoices] : k \in 0..MaxSources}

\* The engine variables of a Manga object on which download_chapters is not running.
EngineAtRest ==
    /\ begin = 1
    /\ end_arg = 0
    /\ concurrent_chapters = 1
    /\ concurrent_downloads = 1
    /\ pc = "start"
    /\ error = "none"
    /\ end = 0
    /\ chunk_start = 1
    /\ windows = << >>
    /\ feed_reads = 0
    /\ last_chapter = -1
    /\ chap = [c \in Chapters |-> "none"]
    /\ page = [c \in Chapters |-> << >>]
    /\ attempts = [c \in Chapters |-> << >>]
    /\ sem = [c \in Chapters |-> 0]
    /\ stores = 0

\* One call of one method, on an argument drawn from the bounded input sets.
TextInit ==
    /\ EngineAtRest
    /\ ret = Pending
    /\ dirs = {} /\ files = {} /\ images = {}
    /\ \/ fn = "find_last_chapter" /\ arg \in Feeds
       \/ fn = "get_images_src" /\ arg \in SourceLists
       \/ fn = "_extract_chapter_page" /\ arg \in Urls

CallFindLastChapter ==
    /\ fn = "find_last_chapter"
    /\ ret = Pending
    /\ ret' = FindLastChapter(arg)
    /\ UNCHANGED <<engine, fn, arg, dirs, files, images>>

CallGetImagesSrc ==
    /\ fn = "get_images_src"
    /\ ret = Pending
    /\ ret' = Returned(GetImagesSrc(arg))
    /\ UNCHANGED <<engine, fn, arg, dirs, files, images>>

CallExtractChapterPage ==
    /\ fn = "_extract_chapter_page"
    /\ ret = Pending
    /\ ret' = ExtractChapterPage(arg)
    /\ UNCHANGED <<engine, fn, arg, dirs, files, images>>

TextNext ==
    \/ CallFindLastChapter
    \/ CallGetImagesSrc
    \/ CallExtractChapterPage

TextSpec == TextInit /\ [][TextNext]_vars

\* ---------------------------------------------------------------- storage view
\* run_driver and download_image as far as the file system is concerned: the
\* directories made by os.makedirs and the files written by image.save.
MaxImgs == 2         \* storage view: a rendered chapter has at most MaxImgs img elements
MaxPayload == 3      \* storage view: response bodies are 1..MaxPayload

StoreChapters == {1, 2}

ImgLists == UNION {[1..k -> SourceChoices] : k \in 0..MaxImgs}

Payloads == 1..MaxPayload

\* str(n) for n >= 0.
RECURSIVE DecimalString(_)
DecimalString(n) ==
    IF n < 10 THEN <<DigitChars[n + 1]>>
    ELSE Append(DecimalString(n \div 10), DigitChars[(n % 10) + 1])

\* s.zfill(w)
RECURSIVE Zfill(_, _)
Zfill(s, w) == IF Len(s) >= w THEN s ELSE Zfill(<<"0">> \o s, w)

\* The directory name of a chapter: str(chapter).zfill(4)
ChapterDir(idx) == Zfill(DecimalString(idx), 4)

\* Image.open(BytesIO(body)) then save as PNG: the file holds the PNG encoding of the
\* picture the body decodes to; bodies 2k-1 and 2k are two encodings of picture k.
Reencode(body) == <<(body + 1) \div 2>>

FileAt(ch, pg) == {f \in files : f.chapter = ch /\ f.page = pg}

\* Mutation of Save: the file is opened for appending.
SaveAppending(ch, pg, content) ==
    (files \ FileAt(ch, pg))
        \cup {[chapter |-> ch, page |-> pg,
                content |-> IF FileAt(ch, pg) = {} THEN content
                            ELSE (CHOOSE f \in FileAt(ch, pg) : TRUE).content \o content]}

\* image.save(path): the file is created or truncated, then written.
Save(ch, pg, content) ==
    (files \ FileAt(ch, pg)) \cup {[chapter |-> ch, page |-> pg, content |-> content]}

StoreInit == EngineAtRest /\ LibIdle

\* run_driver(idx) on a rendering with the img sources `sources`: makedirs with
\* exist_ok=True, then the filtered sources are returned for download.
RunDriverStore(idx, sources) ==
    /\ dirs' = dirs \cup {ChapterDir(idx)}
    /\ images' = images \cup
          {[idx |-> idx, url |-> GetImagesSrc(sources)[k]] : k \in DOMAIN GetImagesSrc(sources)}
    /\ fn' = "run_driver"
    /\ ret' = Returned("images")
    /\ UNCHANGED <<engine, arg, files>>

\* download_image(item.url) whose GET answers 2xx with a decodable body: the url is
\* split into chapter and page, and the picture is saved as <chapter>/<page>.png;
\* saving into a directory that does not exist raises FileNotFoundError.  A returned
\* call is noted "rewritten" when the file already held that content.
DownloadImageStore(item, body) ==
    /\ item \in images
    /\ fn' = "download_image"
    /\ LET r == ExtractChapterPage(item.url)
       IN  IF r.tag = "error"
             THEN ret' = r /\ files' = files
           ELSE IF r.val[1] \notin dirs
             THEN ret' = Raised("FileNotFoundError") /\ files' = files
           ELSE /\ files' = Save(r.val[1], r.val[2], Reencode(body))
                /\ ret' = Returned(IF [chapter |-> r.val[1], page |-> r.val[2],
                                        content |-> Reencode(body)] \in files
                                     THEN "rewritten" ELSE "written")
    /\ UNCHANGED <<engine, arg, dirs, images>>

StoreNext ==
    \/ \E idx \in StoreChapters, sources \in ImgLists : RunDriverStore(idx, sources)
    \/ \E item \in images, body \in Payloads : DownloadImageStore(item, body)

StoreSpec == StoreInit /\ [][StoreNext]_vars

\* ---------------------------------------------------------------- properties
\* C1: within one download_images call with window_size >= 1, the number of page
\* fetches inside download_image never exceeds window_size.
InFlightWithinWindowSize ==
    concurrent_downloads >= 1 =>
        \A c \in Chapters : Cardinality(InFlight(c)) <= concurrent_downloads

\* C1 witness: the cap is reached while another page task is held at the gate.
InFlightAtCap ==
    \E c \in Chapters :
        /\ concurrent_downloads >= 1
        /\ Cardinality(InFlight(c)) = concurrent_downloads
        /\ \E p \in DOMAIN page[c] : page[c][p] = "waiting"

\* C2: once a later window has been dispatched, every chapter task of each earlier
\* window, and every page task it spawned, is in a terminal state.
WindowsAreSequential ==
    \A i, j \in DOMAIN windows :
        i < j =>
            \A c \in windows[i][1]..windows[i][2] :
                /\ ChapterTerminal(chap[c])
                /\ \A p \in DOMAIN page[c] : PageTerminal(page[c][p])

\* C2 witness: a second window is running after a two-chapter window with pages.
SecondWindowAfterFullFirst ==
    /\ Len(windows) >= 2
    /\ windows[1][2] > windows[1][1]
    /\ \A c \in windows[1][1]..windows[1][2] : Len(page[c]) >= 1
    /\ \E c \in windows[2][1]..windows[2][2] : chap[c] = "downloading"

\* The i-th chunk of range(begin, end + 1, concurrent_chapters).
ExpectedWindow(i) ==
    <<begin + (i - 1) * concurrent_chapters,
      IF begin + i * concurrent_chapters - 1 <= end
        THEN begin + i * concurrent_chapters - 1 ELSE end>>

ExpectedWindowCount ==
    IF end < begin THEN 0 ELSE ((end - begin) \div concurrent_chapters) + 1

PagesInRange ==
    SumTo([c \in Chapters |-> IF c \in begin..end THEN Len(page[c]) ELSE 0], MaxChapter)

\* C3: the windows dispatched are the consecutive chunks of concurrent_chapters
\* indices of begin..end in increasing order; when the run returns, every index of
\* begin..end was dispatched exactly once and the number of image stores is the sum
\* of the page counts of those chapters.
ChaptersDispatchedInWindows ==
    /\ \A i \in DOMAIN windows : windows[i] = ExpectedWindow(i)
    /\ \A c \in Chapters : c \notin begin..end => chap[c] = "none"
    /\ pc = "done" =>
        /\ Len(windows) = ExpectedWindowCount
        /\ \A c \in begin..end :
              Cardinality({i \in DOMAIN windows : c \in windows[i][1]..windows[i][2]}) = 1
        /\ stores = PagesInRange

\* C3 witness: range [1,3], cap 2, two pages each: windows {1,2} then {3}, 6 stores.
SixStoresInTwoWindows ==
    /\ pc = "done"
    /\ begin = 1 /\ end = 3 /\ concurrent_chapters = 2
    /\ \A c \in 1..3 : Len(page[c]) = 2
    /\ windows = << <<1, 2>>, <<3, 3>> >>
    /\ stores = 6

\* C4: a failed page fetch does not abort the run: a run that has ended after a page
\* fetch failed (and nothing else went wrong) has dispatched every chapter of
\* begin..end.
PageFailureDoesNotAbortRun ==
    ( /\ pc \in {"done", "raised"}
      /\ error \notin FeedErrors
      /\ \A c \in Chapters : chap[c] # "driver_failed"
      /\ \E c \in Chapters : \E p \in DOMAIN page[c] : page[c][p] = "failed" )
    => \A c \in begin..end : chap[c] # "none"

\* C5: page fetch errors never escape as exceptions: no download_images call raises,
\* and download_chapters raises only for a discovery failure.
FetchErrorsNeverEscape ==
    /\ \A c \in Chapters : chap[c] # "images_raised"
    /\ pc = "raised" =>
          \/ error \in FeedErrors
          \/ \E c \in Chapters : chap[c] = "driver_failed"

\* The retry ceiling ("patience") the retry-bound property is stated for.
Patience == 3

\* The failures a retry policy calls transient: 5xx and network-level errors.
TransientErrors == {"http5xx", "network"}

\* C6: a page fetch that ends in a transient error (5xx, network) has then been
\* attempted exactly Patience times.
TransientFetchAttemptedPatienceTimes ==
    [][\A c \in Chapters : \A p \in 1..MaxPages : \A e \in TransientErrors :
          FetchFail(c, p, e) => attempts'[c][p] = Patience]_vars

\* C7: with both caps >= 1 the page fetches in flight over all chapters never exceed
\* concurrent_chapters * concurrent_downloads, and the next waiting page task of a
\* chapter may start whenever its own chapter has a free permit, whatever the other
\* chapters hold.
TotalInFlightWithinProduct ==
    (concurrent_chapters >= 1 /\ concurrent_downloads >= 1) =>
        /\ TotalInFlight <= concurrent_chapters * concurrent_downloads
        /\ \A c \in Chapters : \A p \in DOMAIN page[c] :
              ( /\ page[c][p] = "waiting"
                /\ \A q \in 1..(p - 1) : page[c][q] # "waiting"
                /\ Cardinality(InFlight(c)) < concurrent_downloads )
                  => ENABLED StartFetch(c, p)

\* C7 witness: the product is reached by two chapters, one of them with all its
\* permits taken and a page waiting.
ProductReachedAcrossChapters ==
    /\ concurrent_chapters >= 2 /\ concurrent_downloads >= 1
    /\ TotalInFlight = concurrent_chapters * concurrent_downloads
    /\ \E c1, c2 \in Chapters :
          /\ c1 # c2
          /\ sem[c1] = 0
          /\ \E p \in DOMAIN page[c1] : page[c1][p] = "waiting"
          /\ InFlight(c2) # {}

\* C8: when find_last_chapter fails, download_chapters has raised that failure after
\* a single feed read, and no chapter task, page task or store ever exists.
DiscoveryFailureDispatchesNothing ==
    error \in FeedErrors =>
        /\ pc = "raised"
        /\ feed_reads = 1
        /\ windows = << >>
        /\ \A c \in Chapters : chap[c] = "none" /\ page[c] = << >> /\ attempts[c] = << >>
        /\ stores = 0

\* C8 witness: the feed has no guid.
FeedWithoutGuidRaised == error = "no_guid" /\ pc = "raised" /\ end_arg = -1

\* C9: a chapter whose run_driver failed never has a page task, a GET or a semaphore.
DriverFailureDispatchesNoFetch ==
    \A c \in Chapters :
        chap[c] = "driver_failed" =>
            page[c] = << >> /\ attempts[c] = << >> /\ sem[c] = 0

\* C9 witness: run_driver failed for one chapter while a sibling chapter downloads.
DriverFailedBesideDownload ==
    \E c1, c2 \in Chapters :
        /\ chap[c1] = "driver_failed"
        /\ chap[c2] = "downloading"
        /\ InFlight(c2) # {}

\* C10: the feed is read exactly once when end is -1 and the value read becomes end;
\* for an explicit end the feed is never read and end is the caller's value; only
\* indices of begin..end are dispatched, and all of them when the run returns.
EndDiscoveredOnlyWhenSentinel ==
    /\ end_arg # -1 => feed_reads = 0 /\ last_chapter = -1 /\ end = end_arg
    /\ end_arg = -1 => feed_reads = (IF pc = "start" THEN 0 ELSE 1)
    /\ (end_arg = -1 /\ pc # "start" /\ error \notin FeedErrors) => end = last_chapter
    /\ \A c \in Chapters : chap[c] # "none" => c \in begin..end
    /\ pc = "done" => \A c \in begin..end : chap[c] = "done"

\* C10 witness: a run with a discovered end has returned after downloading pages.
DiscoveredRunReturned ==
    /\ end_arg = -1 /\ pc = "done"
    /\ feed_reads = 1 /\ end = last_chapter /\ end >= begin
    /\ stores > 0

\* The number a string of decimal digits denotes.
RECURSIVE Pow10(_)
Pow10(n) == IF n = 0 THEN 1 ELSE 10 * Pow10(n - 1)

RECURSIVE DecimalFrom(_, _)
DecimalFrom(d, i) ==
    IF i > Len(d) THEN 0 ELSE DigitVal(d[i]) * Pow10(Len(d) - i) + DecimalFrom(d, i + 1)

\* C11: for a guid <prefix>-<digits>, find_last_chapter returns the number the digits
\* after the last "-" denote.
TrailingNumberReturned ==
    (fn = "find_last_chapter" /\ ret # Pending /\ arg.status = "ok") =>
        \A k \in 1..(Len(arg.guid) - 1) :
            ( /\ arg.guid[k] = "-"
              /\ \A j \in (k + 1)..Len(arg.guid) : arg.guid[j] \in Digits )
            => ret = Returned(DecimalFrom(SubSeq(arg.guid, k + 1, Len(arg.guid)), 1))

\* C11 witness: the guid a-142 has yielded 142.
Guid42Returned ==
    /\ fn = "find_last_chapter"
    /\ arg.status = "ok"
    /\ arg.guid = <<"a", "-", "1", "4", "2">>
    /\ ret = Returned(142)

\* Whether text ends in a page file name NNNN-NNN.png.
EndsInPageName(text) ==
    /\ Len(text) >= 12
    /\ LET t == SubSeq(text, Len(text) - 11, Len(text))
       IN  /\ \A i \in {1, 2, 3, 4, 6, 7, 8} : t[i] \in Digits
           /\ t[5] = "-"
           /\ SubSeq(t, 9, 12) = <<".", "p", "n", "g">>

\* The indices of the img elements whose src is present and is a page file name.
PageIndices(sources) ==
    {i \in DOMAIN sources : ~sources[i].none /\ EndsInPageName(sources[i].text)}

\* C13: get_images_src returns exactly the src values that are page file names, in
\* their order, each as often as it occurs; a missing src is never returned.
OnlyPageSourcesInOrder ==
    (fn = "get_images_src" /\ ret # Pending) =>
        /\ ret.tag = "ok"
        /\ Len(ret.val) = Cardinality(PageIndices(arg))
        /\ \A i \in PageIndices(arg) :
              ret.val[Cardinality({j \in PageIndices(arg) : j <= i})] = arg[i].text
        /\ \A k \in DOMAIN ret.val : ret.val[k] # Str(None)

\* C13 witness: of [page, no src, the same page] the page is returned twice.
DuplicatePageKept ==
    /\ fn = "get_images_src"
    /\ Len(arg) = 3
    /\ arg[1] = arg[3] /\ arg[2] = None
    /\ ret.tag = "ok" /\ Len(ret.val) = 2 /\ ret.val[1] = ret.val[2]

\* C19: for every url the filter accepts, _extract_chapter_page returns the pair of
\* the 4-digit chapter token and the 3-digit page token that end the url.
AcceptedUrlsExtract ==
    (fn = "_extract_chapter_page" /\ ret # Pending /\ Matches(arg)) =>
        ret = Returned(<<SubSeq(arg, Len(arg) - 11, Len(arg) - 8),
                         SubSeq(arg, Len(arg) - 6, Len(arg) - 4)>>)

\* C15: a store whose file already holds the same content under the same
\* (chapter, page) key leaves the directories and files as they are, and run_driver on
\* a chapter whose directory exists leaves the directories and every file as they are.
StoreIsIdempotent ==
    [][ /\ \A item \in images : \A body \in Payloads :
              ( /\ DownloadImageStore(item, body)
                /\ ExtractChapterPage(item.url).tag = "ok"
                /\ [chapter |-> ExtractChapterPage(item.url).val[1],
                    page |-> ExtractChapterPage(item.url).val[2],
                    content |-> Reencode(body)] \in files )
              => (files' = files /\ dirs' = dirs)
        /\ fn' = "run_driver" =>
              /\ files' = files
              /\ \A idx \in StoreChapters : ChapterDir(idx) \in dirs => ChapterDir(idx) \in dirs'
              /\ Cardinality(dirs') <= Cardinality(dirs) + 1 ]_vars

\* C15 witness: a page was saved again with the same content, in a directory that
\* run_driver has made.
PageSavedAgain ==
    /\ fn = "download_image"
    /\ ret = Returned("rewritten")
    /\ Cardinality(files) = 1 /\ Cardinality(dirs) >= 1

\* C18: every url that discovery of chapter idx returned and that download_image can
\* split carries the chapter token str(idx).zfill(4), and no save ever targets a
\* directory that was not made.
StoresTargetCreatedDirs ==
    /\ \A item \in images :
          ExtractChapterPage(item.url).tag = "ok" =>
              ExtractChapterPage(item.url).val[1] = ChapterDir(item.idx)
    /\ ~(fn = "download_image" /\ ret = Raised("FileNotFoundError"))

\* C12: the step in which discovery returns no page source ends the chapter task
\* normally with no page task, no GET and no store, and leaves the run going; no
\* download_images call on an empty list ever raises.
EmptyChapterCompletes ==
    [][ /\ \A c \in Chapters :
              RunDriverOk(c, 0) =>
                  /\ chap'[c] = "done"
                  /\ page'[c] = << >> /\ attempts'[c] = << >>
                  /\ stores' = stores
                  /\ pc' = pc /\ error' = error
        /\ \A c \in Chapters : chap'[c] = "images_raised" => page'[c] # << >> ]_vars

\* C12 witness: a chapter of the first window had no page and a later window runs.
RunGoesOnAfterEmptyChapter ==
    /\ Len(windows) >= 2
    /\ \E c \in windows[1][1]..windows[1][2] :
          chap[c] = "done" /\ page[c] = << >> /\ sem[c] = concurrent_downloads
    /\ \E c \in windows[2][1]..windows[2][2] : chap[c] = "downloading"

\* C14: once a page of a chapter is found missing, no later page of that chapter is
\* attempted (stated for runs that fetch one page at a time, in page order).
NoFetchPastMissingPage ==
    [][\A c \in Chapters : \A p \in 1..MaxPages :
          (concurrent_downloads = 1 /\ StartFetch(c, p))
          => \A q \in 1..(p - 1) : page[c][q] # "failed"]_vars

\* C16: a chapter task that returned has every discovered page fetched and stored,
\* and a chapter whose discovery has not returned has no page task and no GET.
ChapterDoneAfterAllPages ==
    \A c \in Chapters :
        /\ chap[c] = "done" =>
              \A p \in DOMAIN page[c] : page[c][p] = "ok" /\ attempts[c][p] >= 1
        /\ chap[c] \in {"none", "created"} => page[c] = << >> /\ attempts[c] = << >>
        /\ Len(attempts[c]) = Len(page[c])

\* C16 witness: a two-page chapter returned while a sibling is still downloading.
ChapterReturnedBesideSibling ==
    \E c1, c2 \in Chapters :
        /\ chap[c1] = "done" /\ Len(page[c1]) = 2
        /\ chap[c2] = "downloading" /\ InFlight(c2) # {}

\* C17: when download_chapters has returned or raised, and when a download_images
\* call has returned or raised, none of the tasks it spawned is still unfinished.
NoTaskOutlivesItsCaller ==
    /\ pc \in {"done", "raised"} =>
          \A c \in Chapters :
              /\ chap[c] \notin {"created", "downloading"}
              /\ \A p \in DOMAIN page[c] : PageTerminal(page[c][p])
    /\ \A c \in Chapters :
          chap[c] \in {"done", "images_raised"} =>
              \A p \in DOMAIN page[c] : PageTerminal(page[c][p])

\* C20 as stated, for every concurrent_downloads >= 0: the run terminates.
RunTerminates == <>(pc \in {"done", "raised"})

\* C20 amended: with concurrent_downloads >= 1 the run terminates.
RunTerminatesWithPermits ==
    concurrent_downloads >= 1 => <>(pc \in {"done", "raised"})

\* C20 witness: a run with one permit returned after a page had to wait for it.
ReturnedAfterWaiting ==
    /\ pc = "done"
    /\ concurrent_downloads = 1
    /\ \E c \in Chapters : Len(page[c]) = 2 /\ chap[c] = "done"

====
